---- MODULE Spec2Model ----
(***************************************************************************)
(* State-machine model of prefect/task_runners.py: BaseTaskRunner's        *)
(* start / start_sync scopes, SequentialTaskRunner and                     *)
(* ConcurrentTaskRunner (cooperative path on an anyio task group, blocking *)
(* path on a ThreadPoolExecutor).                                          *)
(***************************************************************************)
EXTENDS Integers, Sequences, FiniteSets, TLC

\* ------------------------------------------------------------- bounds
\* Number of run keys (UUIDs) a run of the model submits.
MaxKeys == 2
\* Number of times _start / _start_sync create resources in a run.
MaxStarts == 2
\* Number of absent (timed out) returns of wait counted per key.
MaxTimeouts == 2
\* Number of events the subscription of `stream` delivers.
MaxEvents == 2
\* Number of distinct objects that occur in a collection given to visit_collection.
MaxObjs == 3
\* Length of a collection given to visit_collection.
MaxLen == 3

Keys == 1..MaxKeys
\* Callers of start / start_sync (cooperative tasks or threads).
Scopes == {"s1", "s2"}
\* Cooperative tasks that call SequentialTaskRunner.submit.
Callers == {"c1", "c2"}

\* What a submitted call does: return a State, or raise.
Calls == {"Returns", "Raises"}
\* What a call that raises, raises: an Exception, or a BaseException that is
\* not an Exception (KeyboardInterrupt, CancelledError, SystemExit).
Faults == {"Exception", "BaseException"}
Outcomes == {"Completed", "Crashed"}
Timeouts == {"None", "Finite"}

VARIABLES
    auto,           \* automations.py: the server's automations and the last reply
    cli,            \* cli/events.py: the `stream` command
    visit,          \* utilities/collections.py: a call of visit_collection
    kind,           \* the concrete class: "sequential" | "concurrent"
    deserialized,   \* the runner is a copy made by __setstate__ (pickle.loads)
    dup,            \* the runner that duplicate() returned, if it was called
    started,        \* BaseTaskRunner._started
    task_group,     \* ConcurrentTaskRunner._task_group: 0 is None, n the n-th group
    executor,       \* ConcurrentTaskRunner._executor: 0 is None, n the n-th pool
    result_events,  \* _result_events: key -> is the Event set
    results,        \* _results: insertion-ordered dict, a sequence of [key, val]
    futures,        \* _futures: keys that have a Future in the table
    liveTG,         \* task groups entered and not yet exited
    livePool,       \* thread pools entered and not yet shut down
    tgFault,        \* task groups a child task of which ended with a fault
    nextId,         \* number of resource sets created so far
    scope,          \* position of each caller of start / start_sync
    work,           \* key -> the in-flight work: path, owner, position, call
    cancelled,      \* keys whose cooperative task was cancelled by its group
    inSubmit,       \* sequential runner: caller -> key of the submit it is in, 0 if none
    nextKey,        \* number of keys used so far
    waiter,         \* position of the caller of wait / wait_sync
    timeouts,       \* the key the waiter last got the absent value for, and how often in a row
    last            \* the API call that returned or raised in the step just taken

vars == <<auto, cli, visit, kind, deserialized, dup, started, task_group, executor, result_events, results, futures,
          liveTG, livePool, tgFault, nextId, scope, work, cancelled, inSubmit,
          nextKey, waiter, timeouts, last>>

\* ------------------------------------------------- insertion-ordered dict
DictKeys(d) == {d[i].key : i \in 1..Len(d)}

DictGet(d, k) == (CHOOSE i \in 1..Len(d) : d[i].key = k)

\* A table rebound to a new dict that holds the one entry: d = {k: v}.
DictPutOnly(d, k, v) == <<[key |-> k, val |-> v]>>

\* A table written under one fixed slot: the new entry takes the place of the
\* last one.
DictPutOverLast(d, k, v) ==
    IF d = <<>> THEN <<[key |-> k, val |-> v]>>
    ELSE [d EXCEPT ![Len(d)] = [key |-> k, val |-> v]]

\* A new entry put in front of the others instead of behind them.
DictPutFront(d, k, v) ==
    IF k \in DictKeys(d)
    THEN [i \in 1..Len(d) |-> IF d[i].key = k THEN [key |-> k, val |-> v] ELSE d[i]]
    ELSE <<[key |-> k, val |-> v]>> \o d

\* d[k] = v: an existing entry is overwritten in place, a new one is appended.
DictPut(d, k, v) ==
    IF k \in DictKeys(d)
    THEN [i \in 1..Len(d) |-> IF d[i].key = k THEN [key |-> k, val |-> v] ELSE d[i]]
    ELSE Append(d, [key |-> k, val |-> v])

\* The value of the entry written last, whatever the key asked for.
DictValLatest(d, k) == d[Len(d)].val

\* The table read as if its entries were in submission order: the value at
\* the position of the key.
DictValByOrder(d, k) == IF k <= Len(d) THEN d[k].val ELSE d[Len(d)].val

DictVal(d, k) == d[DictGet(d, k)].val

\* ------------------------------------------------------------ the calls
\* An except clause that names Exception instead of BaseException.
CatchesExceptionOnly(fault) == fault = "Exception"

\* try: result = call() except BaseException as exc: ...
\* The except clause of _run_and_store_result, _run_and_store_result_sync and
\* SequentialTaskRunner.submit: which raised faults it catches.
Catches(fault) == fault \in {"Exception", "BaseException"}

\* The fault that executing the call of key k ends with, f being what the
\* call raises if it raises; "None" when it returns its State. A cooperative
\* task cancelled by its task group raises the cancellation (a BaseException)
\* at its next checkpoint.
Raised(k, f) ==
    IF k \in cancelled THEN "BaseException"
    ELSE IF work[k].call = "Raises" THEN f
    ELSE "None"

\* exception_to_crashed_state(exc)
CrashedState == "Crashed"

\* The value the try/except leaves in `result`; "Fault" when the fault is not
\* caught and leaves the function.
RunCall(k, f) ==
    IF Raised(k, f) = "None" THEN "Completed"
    ELSE IF Catches(Raised(k, f)) THEN CrashedState
    ELSE "Fault"

\* The Outcome the contract assigns to a call.
OutcomeOf(c) == IF c = "Returns" THEN "Completed" ELSE "Crashed"

\* No call submitted under the key. `owner` is the task group or thread pool
\* the call was handed to, `by` the cooperative caller of a sequential submit,
\* `within` the start scopes (by the id of their resources) that callers were
\* inside of when the key was submitted.
NoWork ==
    [path |-> "none", owner |-> 0, by |-> "none", st |-> "none", call |-> "none",
     within |-> {}]

Idle == [pc |-> "idle", mode |-> "none", id |-> 0]

NoWait == [pc |-> "idle", op |-> "none", key |-> 0, tmo |-> "None", via |-> "none"]

Ret(op, key, res) == [op |-> op, key |-> key, tmo |-> "None", after |-> 0, res |-> res]

\* wait / wait_sync called with timeout tmo returned or raised res.
\* `after` is the number of absent returns the waiter got for the key just before.
RetW(op, key, tmo, res) ==
    [op |-> op, key |-> key, tmo |-> tmo, res |-> res,
     after |-> IF timeouts.key = key THEN timeouts.n ELSE 0]

NoTimeouts == [key |-> 0, n |-> 0]

\* No API call returned in the step.
NoRet == Ret("none", 0, "none")

\* The attributes a runner has after __init__: not started, no task group, no
\* executor, and a table of its own, empty, for each of _results,
\* _result_events and _futures. `shared` names the tables that are the very
\* objects of another runner, `sub` the calls submitted to this runner, `at`
\* the number of keys the other runner had used when this one was made.
NewRunner(cls) ==
    [exists |-> TRUE, kind |-> cls, started |-> FALSE, task_group |-> 0, executor |-> 0,
     shared |-> {}, results |-> <<>>, result_events |-> [k \in {} |-> FALSE], futures |-> {},
     sub |-> [k \in Keys |-> "none"], at |-> 0]

\* duplicate() was not called.
NoDup == [NewRunner("none") EXCEPT !.exists = FALSE]

InitFields ==
    /\ deserialized = FALSE
    /\ dup = NoDup
    /\ started = FALSE
    /\ task_group = 0
    /\ executor = 0
    /\ result_events = [k \in {} |-> FALSE]
    /\ results = <<>>
    /\ futures = {}
    /\ liveTG = {}
    /\ livePool = {}
    /\ tgFault = {}
    /\ nextId = 0
    /\ scope = [s \in Scopes |-> Idle]
    /\ work = [k \in Keys |-> NoWork]
    /\ cancelled = {}
    /\ inSubmit = [c \in Callers |-> 0]
    /\ nextKey = 0
    /\ waiter = NoWait
    /\ timeouts = NoTimeouts
    /\ last = NoRet

\* The variables of the task runner.
runnerVars ==
    <<kind, deserialized, dup, started, task_group, executor, result_events, results,
      futures, liveTG, livePool, tgFault, nextId, scope, work, cancelled, inSubmit,
      nextKey, waiter, timeouts, last>>

\* No automation on the server, no call of Automation made.
NoAuto == [table |-> <<>>, op |-> "none", id |-> "none", res |-> "none"]

\* The `stream` command is not invoked.
NoCli == [pc |-> "none"]

\* visit_collection is not called.
NoVisit == [pc |-> "none"]

\* The modules other than task_runners.py are not in use.
OthersIdle == auto = NoAuto /\ cli = NoCli /\ visit = NoVisit

\* ConcurrentTaskRunner()
Init == kind = "concurrent" /\ InitFields /\ OthersIdle

\* SequentialTaskRunner()
SeqInit == kind = "sequential" /\ InitFields /\ OthersIdle

\* ------------------------------------------------------------ the loop
\* The event-loop thread is inside a blocking call: wait() routed to
\* wait_sync() for a key of _futures, or ThreadPoolExecutor.__exit__ run by
\* the AsyncExitStack of start().
LoopBlocked ==
    \/ waiter.pc = "blocked" /\ waiter.op = "wait" /\ waiter.via = "future"
    \/ \E s \in Scopes : scope[s].pc = "exit_pool" /\ scope[s].mode = "async"

\* ----------------------------------------------------- start / start_sync
\* start without its check of _started.
AlreadyStartedUnchecked == FALSE

\* if self._started: raise RuntimeError("The task runner is already started!")
AlreadyStarted == started

\* Resource sets not yet created that callers already inside start_sync will create.
Entering == Cardinality({s \in Scopes : scope[s].pc = "entering"})

\* The callers of start are interchangeable: the next one to call is the first
\* that is in no scope.
NextCaller == CHOOSE s \in Scopes : scope[s].pc = "idle" /\ (s = "s1" \/ scope["s1"].pc # "idle")

\* BaseTaskRunner.start up to its yield. A cooperative caller runs the check,
\* _start and the assignment of _started without a suspension point.
\* ConcurrentTaskRunner._start enters a task group, then a thread pool;
\* BaseTaskRunner._start (the sequential runner's) creates nothing.
Start(s) ==
    /\ scope[s].pc = "idle"
    /\ s = NextCaller
    /\ ~LoopBlocked
    /\ IF AlreadyStarted
       THEN /\ last' = Ret("start", 0, "AlreadyStarted")
            /\ UNCHANGED <<started, task_group, executor, liveTG, livePool, nextId, scope>>
       ELSE /\ nextId + Entering < MaxStarts
            /\ nextId' = nextId + 1
            /\ IF kind = "concurrent"
               THEN /\ task_group' = nextId'
                    /\ executor' = nextId'
                    /\ liveTG' = liveTG \cup {nextId'}
                    /\ livePool' = livePool \cup {nextId'}
               ELSE UNCHANGED <<task_group, executor, liveTG, livePool>>
            /\ started' = TRUE
            /\ scope' = [scope EXCEPT ![s] = [pc |-> "inside", mode |-> "async", id |-> nextId']]
            /\ last' = Ret("start", 0, "ok")
    /\ UNCHANGED <<auto, cli, visit, kind, deserialized, dup, result_events, results, futures, tgFault, work, cancelled,
                   inSubmit, nextKey, waiter, timeouts>>

\* BaseTaskRunner.start_sync, the check of _started. The caller is a thread:
\* other threads run between its check and its _start_sync.
StartSyncCheck(s) ==
    /\ scope[s].pc = "idle"
    /\ s = NextCaller
    /\ IF AlreadyStarted
       THEN /\ last' = Ret("start_sync", 0, "AlreadyStarted")
            /\ UNCHANGED scope
       ELSE /\ nextId + Entering < MaxStarts
            /\ scope' = [scope EXCEPT ![s] = [pc |-> "entering", mode |-> "sync", id |-> 0]]
            /\ last' = NoRet
    /\ UNCHANGED <<auto, cli, visit, kind, deserialized, dup, started, task_group, executor, result_events, results, futures,
                   liveTG, livePool, tgFault, nextId, work, cancelled, inSubmit,
                   nextKey, waiter, timeouts>>

\* BaseTaskRunner.start_sync from _start_sync to its yield.
\* ConcurrentTaskRunner._start_sync enters a thread pool only.
StartSyncEnter(s) ==
    /\ scope[s].pc = "entering"
    /\ nextId' = nextId + 1
    /\ IF kind = "concurrent"
       THEN /\ executor' = nextId'
            /\ livePool' = livePool \cup {nextId'}
       ELSE UNCHANGED <<executor, livePool>>
    /\ started' = TRUE
    /\ scope' = [scope EXCEPT ![s] = [pc |-> "inside", mode |-> "sync", id |-> nextId']]
    /\ last' = Ret("start_sync", 0, "ok")
    /\ UNCHANGED <<auto, cli, visit, kind, deserialized, dup, task_group, result_events, results, futures, liveTG, tgFault,
                   work, cancelled, inSubmit, nextKey, waiter, timeouts>>

\* The finally clause of start / start_sync: _started = False, after which the
\* exit stack unwinds (the thread pool first, it was entered last).
ExitBegin(s) ==
    /\ scope[s].pc = "inside"
    /\ scope[s].mode = "async" => ~LoopBlocked
    /\ started' = FALSE
    /\ scope' = [scope EXCEPT ![s].pc = IF kind = "concurrent" THEN "exit_pool" ELSE "idle"]
    /\ UNCHANGED <<auto, cli, visit, kind, deserialized, dup, task_group, executor, result_events, results, futures, liveTG,
                   livePool, tgFault, nextId, work, cancelled, inSubmit, nextKey,
                   waiter, timeouts>>
    /\ last' = NoRet

\* An exit stack the thread pool was never entered on: nothing shuts it down.
ExitPoolLeaks(s) ==
    /\ scope[s].pc = "exit_pool"
    /\ scope' = [scope EXCEPT ![s].pc = IF scope[s].mode = "async" THEN "exit_tg" ELSE "idle"]
    /\ UNCHANGED <<auto, cli, visit, kind, deserialized, dup, started, task_group, executor, result_events, results,
                   futures, liveTG, livePool, tgFault, nextId, work, cancelled, inSubmit,
                   nextKey, waiter, timeouts>>
    /\ last' = NoRet

\* ThreadPoolExecutor.__exit__: shutdown(wait=True) returns when every call
\* given to the pool has run.
ExitPool(s) ==
    /\ scope[s].pc = "exit_pool"
    /\ \A k \in Keys : work[k].path = "sync" /\ work[k].owner = scope[s].id
                          => work[k].st = "done"
    /\ livePool' = livePool \ {scope[s].id}
    /\ scope' = [scope EXCEPT ![s].pc = IF scope[s].mode = "async" THEN "exit_tg" ELSE "idle"]
    /\ UNCHANGED <<auto, cli, visit, kind, deserialized, dup, started, task_group, executor, result_events, results, futures,
                   liveTG, tgFault, nextId, work, cancelled, inSubmit, nextKey,
                   waiter, timeouts>>
    /\ last' = NoRet

\* TaskGroup.__aexit__: returns when every child task has ended, and raises the
\* fault of a child that ended with one.
ExitTG(s) ==
    /\ scope[s].pc = "exit_tg"
    /\ ~LoopBlocked
    /\ \A k \in Keys : work[k].path = "coop" /\ work[k].owner = scope[s].id
                          => work[k].st = "done"
    /\ liveTG' = liveTG \ {scope[s].id}
    /\ scope' = [scope EXCEPT ![s].pc = "idle"]
    /\ last' = IF scope[s].id \in tgFault THEN Ret("start", 0, "Fault") ELSE NoRet
    /\ UNCHANGED <<auto, cli, visit, kind, deserialized, dup, started, task_group, executor, result_events, results, futures,
                   livePool, tgFault, nextId, work, cancelled, inSubmit, nextKey,
                   waiter, timeouts>>

\* BaseTaskRunner.start when ConcurrentTaskRunner._start raises after it has
\* entered the task group (ThreadPoolExecutor() fails): _task_group is bound
\* to the new group, the finally clause clears _started and the exit stack
\* exits the group, which has no child. BaseTaskRunner._start cannot fail.
StartFails(s) ==
    /\ kind = "concurrent"
    /\ scope[s].pc = "idle"
    /\ s = NextCaller
    /\ ~LoopBlocked
    /\ ~AlreadyStarted
    /\ nextId + Entering < MaxStarts
    /\ nextId' = nextId + 1
    /\ task_group' = nextId'
    /\ started' = FALSE
    /\ last' = Ret("start", 0, "Fault")
    /\ UNCHANGED <<auto, cli, visit, kind, deserialized, dup, executor, result_events, results, futures, liveTG,
                   livePool, tgFault, scope, work, cancelled, inSubmit, nextKey, waiter,
                   timeouts>>

\* BaseTaskRunner.start_sync when ConcurrentTaskRunner._start_sync raises
\* (ThreadPoolExecutor() fails): nothing was entered on the exit stack, and the
\* finally clause clears _started.
StartSyncFails(s) ==
    /\ kind = "concurrent"
    /\ scope[s].pc = "entering"
    /\ started' = FALSE
    /\ scope' = [scope EXCEPT ![s] = Idle]
    /\ last' = Ret("start_sync", 0, "Fault")
    /\ UNCHANGED <<auto, cli, visit, kind, deserialized, dup, task_group, executor, result_events, results, futures,
                   liveTG, livePool, tgFault, nextId, work, cancelled, inSubmit, nextKey,
                   waiter, timeouts>>

\* The start scopes a caller is inside of (between the yield of start /
\* start_sync and its finally clause), by the id of their resources.
Inside == {scope[s].id : s \in {t \in Scopes : scope[t].pc = "inside"}}

\* ------------------------------------------------ ConcurrentTaskRunner.submit
\* An Event that is set from the start.
NewEventSet(k) ==
    [j \in DOMAIN result_events \cup {k} |-> IF j = k THEN TRUE ELSE result_events[j]]

\* A Completion Signal Table made anew with the one Event of key k.
NewEventOnly(k) == [j \in {k} |-> FALSE]

\* self._result_events[key] = Event()
NewEvent(k) ==
    [j \in DOMAIN result_events \cup {k} |-> IF j = k THEN FALSE ELSE result_events[j]]

\* submit without its check of _started.
NotStartedUnchecked == FALSE

\* if not self._started: raise RuntimeError("The task runner must be started
\* before submitting work.")
NotStarted == ~started

\* ConcurrentTaskRunner.submit(key, call), with a key not used before. The
\* Event is registered before start_soon, which raises on a task group that
\* has exited.
Submit(k, c) ==
    /\ kind = "concurrent"
    /\ k = nextKey + 1
    /\ ~LoopBlocked
    /\ IF NotStarted
       THEN /\ last' = Ret("submit", k, "NotStarted")
            /\ UNCHANGED <<result_events, work, nextKey>>
       ELSE IF task_group = 0
       THEN /\ last' = Ret("submit", k, "AfterSerialization")
            /\ UNCHANGED <<result_events, work, nextKey>>
       ELSE /\ result_events' = NewEvent(k)
            /\ nextKey' = k
            /\ IF task_group \in liveTG
               THEN /\ work' = [work EXCEPT ![k] = [path |-> "coop", owner |-> task_group,
                                                    by |-> "none", st |-> "scheduled",
                                                    call |-> c, within |-> Inside]]
                    /\ last' = Ret("submit", k, "ok")
               ELSE /\ last' = Ret("submit", k, "TaskGroupInactive")
                    /\ UNCHANGED work
    /\ UNCHANGED <<auto, cli, visit, kind, deserialized, dup, started, task_group, executor, results, futures, liveTG,
                   livePool, tgFault, nextId, scope, cancelled, inSubmit, waiter,
                   timeouts>>

\* ConcurrentTaskRunner.submit_sync(key, call), with a key not used before.
\* ThreadPoolExecutor.submit raises on a pool that was shut down, before the
\* assignment to _futures[key].
SubmitSync(k, c) ==
    /\ kind = "concurrent"
    /\ k = nextKey + 1
    /\ IF NotStarted
       THEN /\ last' = Ret("submit_sync", k, "NotStarted")
            /\ UNCHANGED <<futures, work, nextKey>>
       ELSE IF executor = 0
       THEN /\ last' = Ret("submit_sync", k, "AfterSerialization")
            /\ UNCHANGED <<futures, work, nextKey>>
       ELSE IF executor \notin livePool
       THEN /\ last' = Ret("submit_sync", k, "PoolShutdown")
            /\ UNCHANGED <<futures, work, nextKey>>
       ELSE /\ futures' = futures \cup {k}
            /\ nextKey' = k
            /\ work' = [work EXCEPT ![k] = [path |-> "sync", owner |-> executor,
                                            by |-> "none", st |-> "running", call |-> c,
                                            within |-> Inside]]
            /\ last' = Ret("submit_sync", k, "ok")
    /\ UNCHANGED <<auto, cli, visit, kind, deserialized, dup, started, task_group, executor, result_events, results, liveTG,
                   livePool, tgFault, nextId, scope, cancelled, inSubmit, waiter,
                   timeouts>>

\* ------------------------------------------------------- the submitted work
\* The task group starts the task of key k: _run_and_store_result runs up to
\* a suspension point inside `await call()`.
CoopBegin(k) ==
    /\ work[k].path = "coop"
    /\ work[k].st = "scheduled"
    /\ ~LoopBlocked
    /\ work' = [work EXCEPT ![k].st = "suspended"]
    /\ UNCHANGED <<auto, cli, visit, kind, deserialized, dup, started, task_group, executor, result_events, results, futures,
                   liveTG, livePool, tgFault, nextId, scope, cancelled, inSubmit,
                   nextKey, waiter, timeouts>>
    /\ last' = NoRet

\* Unfinished tasks of the task group of k other than k: the ones the group
\* cancels when the task of k ends with a fault.
Siblings(k) ==
    {j \in Keys : /\ j # k
                  /\ work[j].path = "coop"
                  /\ work[j].owner = work[k].owner
                  /\ work[j].st # "done"}

\* The Event of key k left as it is.
SetEventForgotten(events, k) == events

\* self._result_events[key].set()
SetEvent(events, k) == [events EXCEPT ![k] = TRUE]

\* _run_and_store_result from the end of `await call()`: the result is stored
\* and the Event set with no suspension point in between.
CoopFinish(k, f) ==
    /\ work[k].path = "coop"
    /\ work[k].st = "suspended"
    /\ ~LoopBlocked
    /\ work' = [work EXCEPT ![k].st = "done"]
    /\ IF RunCall(k, f) # "Fault"
       THEN /\ results' = DictPut(results, k, RunCall(k, f))
            /\ result_events' = SetEvent(result_events, k)
            /\ UNCHANGED <<tgFault, cancelled>>
       ELSE /\ tgFault' = tgFault \cup {work[k].owner}
            /\ cancelled' = cancelled \cup Siblings(k)
            /\ UNCHANGED <<results, result_events>>
    /\ UNCHANGED <<auto, cli, visit, kind, deserialized, dup, started, task_group, executor, futures, liveTG, livePool,
                   nextId, scope, inSubmit, nextKey, waiter, timeouts>>
    /\ last' = NoRet

\* _run_and_store_result_sync in a worker thread, up to self._results[key] = result.
\* A fault that leaves the function is kept by the Future.
ThreadStore(k, f) ==
    /\ work[k].path = "sync"
    /\ work[k].st = "running"
    /\ work' = [work EXCEPT ![k].st = "stored"]
    /\ results' = IF RunCall(k, f) # "Fault" THEN DictPut(results, k, RunCall(k, f)) ELSE results
    /\ UNCHANGED <<auto, cli, visit, kind, deserialized, dup, started, task_group, executor, result_events, futures, liveTG,
                   livePool, tgFault, nextId, scope, cancelled, inSubmit, nextKey,
                   waiter, timeouts>>
    /\ last' = NoRet

\* A Future that becomes done before the worker has stored the result.
ThreadDoneEarly(k) ==
    /\ work[k].path = "sync"
    /\ work[k].st = "running"
    /\ work' = [work EXCEPT ![k].st = "done"]
    /\ UNCHANGED <<auto, cli, visit, kind, deserialized, dup, started, task_group, executor, result_events, results, futures,
                   liveTG, livePool, tgFault, nextId, scope, cancelled, inSubmit,
                   nextKey, waiter, timeouts>>
    /\ last' = NoRet

\* The worker returns and the Future of key k becomes done.
ThreadDone(k) ==
    /\ work[k].path = "sync"
    /\ work[k].st = "stored"
    /\ work' = [work EXCEPT ![k].st = "done"]
    /\ UNCHANGED <<auto, cli, visit, kind, deserialized, dup, started, task_group, executor, result_events, results, futures,
                   liveTG, livePool, tgFault, nextId, scope, cancelled, inSubmit,
                   nextKey, waiter, timeouts>>
    /\ last' = NoRet

\* ------------------------------------------------------ wait / wait_sync
\* A wait that hands every key to wait_sync.
UsesFutureAlways(k) == TRUE

\* A wait that never looks at the handle table.
UsesFutureNever(k) == FALSE

\* if key in self._futures: return self.wait_sync(key, timeout)
UsesFuture(k) == k \in futures

\* A timeout that cancels the work waited for, as a wait on a wrapped future does.
TimeoutCancelsWork(k) == {k}

\* The work a timeout of a wait on key k cancels. move_on_after cancels the
\* waiter's own `await Event.wait()`, and concurrent.futures.wait cancels
\* nothing: the task and the Future of k are left alone.
TimeoutCancels(k) == {}

\* The count is of absent returns in a row for one key: a wait on another key
\* starts it again.
Carry(k) == IF timeouts.key = k THEN timeouts ELSE NoTimeouts

\* One more absent return of a wait on key k, counted up to MaxTimeouts.
CountAbsent(k) ==
    IF timeouts.key = k
    THEN [key |-> k, n |-> IF timeouts.n < MaxTimeouts THEN timeouts.n + 1 ELSE timeouts.n]
    ELSE [key |-> k, n |-> 1]

Block(op, k, tmo, via) == [pc |-> "blocked", op |-> op, key |-> k, tmo |-> tmo, via |-> via]

\* A wait that goes to its strategy without the check of _task_group.
WaitCallUnguarded(k, tmo) ==
    /\ kind = "concurrent"
    /\ waiter.pc = "idle"
    /\ ~LoopBlocked
    /\ IF UsesFuture(k)
       THEN /\ waiter' = Block("wait", k, tmo, "future")
            /\ last' = NoRet
       ELSE IF k \notin DOMAIN result_events
       THEN /\ last' = Ret("wait", k, "KeyError")
            /\ UNCHANGED waiter
       ELSE /\ waiter' = Block("wait", k, tmo, "event")
            /\ last' = NoRet
    /\ UNCHANGED <<auto, cli, visit, kind, deserialized, dup, started, task_group, executor, result_events, results,
                   futures, liveTG, livePool, tgFault, nextId, scope, work, cancelled,
                   inSubmit, nextKey>>
    /\ timeouts' = Carry(k)

\* ConcurrentTaskRunner.wait(key, timeout) up to the point where it blocks.
WaitCall(k, tmo) ==
    /\ kind = "concurrent"
    /\ waiter.pc = "idle"
    /\ ~LoopBlocked
    /\ IF task_group = 0
       THEN /\ last' = Ret("wait", k, "AfterSerialization")
            /\ UNCHANGED waiter
       ELSE IF UsesFuture(k)
       THEN IF executor = 0
            THEN /\ last' = Ret("wait", k, "AfterSerialization")
                 /\ UNCHANGED waiter
            ELSE /\ waiter' = Block("wait", k, tmo, "future")
                 /\ last' = NoRet
       ELSE IF k \notin DOMAIN result_events
       THEN /\ last' = Ret("wait", k, "KeyError")
            /\ UNCHANGED waiter
       ELSE /\ waiter' = Block("wait", k, tmo, "event")
            /\ last' = NoRet
    /\ UNCHANGED <<auto, cli, visit, kind, deserialized, dup, started, task_group, executor, result_events, results, futures,
                   liveTG, livePool, tgFault, nextId, scope, work, cancelled, inSubmit,
                   nextKey>>
    /\ timeouts' = Carry(k)

\* ConcurrentTaskRunner.wait_sync(key, timeout) up to the point where it blocks.
WaitSyncCall(k, tmo) ==
    /\ kind = "concurrent"
    /\ waiter.pc = "idle"
    /\ IF executor = 0
       THEN /\ last' = Ret("wait_sync", k, "AfterSerialization")
            /\ UNCHANGED waiter
       ELSE IF k \notin futures
       THEN /\ last' = Ret("wait_sync", k, "KeyError")
            /\ UNCHANGED waiter
       ELSE /\ waiter' = Block("wait_sync", k, tmo, "future")
            /\ last' = NoRet
    /\ UNCHANGED <<auto, cli, visit, kind, deserialized, dup, started, task_group, executor, result_events, results, futures,
                   liveTG, livePool, tgFault, nextId, scope, work, cancelled, inSubmit,
                   nextKey>>
    /\ timeouts' = Carry(k)

\* _get_run_result: the Event is set, the waiter resumes and reads the table.
WaitWake ==
    /\ waiter.pc = "blocked"
    /\ waiter.via = "event"
    /\ ~LoopBlocked
    /\ result_events[waiter.key]
    /\ last' = RetW(waiter.op, waiter.key, waiter.tmo,
                   IF waiter.key \in DictKeys(results)
                   THEN DictVal(results, waiter.key) ELSE "KeyError")
    /\ waiter' = NoWait
    /\ UNCHANGED <<auto, cli, visit, kind, deserialized, dup, started, task_group, executor, result_events, results, futures,
                   liveTG, livePool, tgFault, nextId, scope, work, cancelled, inSubmit,
                   nextKey>>
    /\ timeouts' = NoTimeouts

\* _get_run_result: move_on_after(timeout) expires while the waiter awaits the
\* Event; result stays None. The expiry cancels the waiter at its await
\* whether or not the Event has been set by then: a deadline that is over
\* when the scope is entered (timeout=0) cancels at the checkpoint of
\* Event.wait(), and one that passes after the Event was set but before the
\* waiter ran again cancels the waiter on its next step.
WaitTimeout ==
    /\ waiter.pc = "blocked"
    /\ waiter.via = "event"
    /\ waiter.tmo = "Finite"
    /\ ~LoopBlocked
    /\ last' = RetW(waiter.op, waiter.key, waiter.tmo, "Absent")
    /\ timeouts' = CountAbsent(waiter.key)
    /\ cancelled' = cancelled \cup {j \in TimeoutCancels(waiter.key) : work[j].st # "done"}
    /\ waiter' = NoWait
    /\ UNCHANGED <<auto, cli, visit, kind, deserialized, dup, started, task_group, executor, result_events, results, futures,
                   liveTG, livePool, tgFault, nextId, scope, work, inSubmit, nextKey>>

\* wait_sync: concurrent.futures.wait returns, the Future being done or the
\* timeout over, and the table is read whichever it was.
WaitFutureReturn ==
    /\ waiter.pc = "blocked"
    /\ waiter.via = "future"
    /\ work[waiter.key].st = "done" \/ waiter.tmo = "Finite"
    /\ LET k == waiter.key
           res == IF k \in DictKeys(results) THEN DictVal(results, k) ELSE "Absent"
       IN /\ last' = RetW(waiter.op, k, waiter.tmo, res)
          /\ timeouts' = IF res = "Absent" THEN CountAbsent(k) ELSE NoTimeouts
          /\ cancelled' = IF work[k].st # "done"
                          THEN cancelled \cup {j \in TimeoutCancels(k) : work[j].st # "done"}
                          ELSE cancelled
    /\ waiter' = NoWait
    /\ UNCHANGED <<auto, cli, visit, kind, deserialized, dup, started, task_group, executor, result_events, results, futures,
                   liveTG, livePool, tgFault, nextId, scope, work, inSubmit, nextKey>>

\* ------------------------------------------- __getstate__ / __setstate__
\* self.__dict__ of a ConcurrentTaskRunner.
RunnerDict ==
    [started |-> started, task_group |-> task_group, executor |-> executor,
     result_events |-> result_events, results |-> results, futures |-> futures]

\* __getstate__: data = self.__dict__.copy(), then _task_group, _executor and
\* _futures are set to None (0) in the copy.
GetState(d) == [d EXCEPT !.task_group = 0, !.executor = 0, !.futures = 0]

\* pickle.dumps then pickle.loads of the data: every table is rebuilt entry by
\* entry, the keys and values by value.
Pickled(data) ==
    [data EXCEPT
        !.results = [i \in 1..Len(data.results) |->
                        [key |-> data.results[i].key, val |-> data.results[i].val]],
        !.result_events = [k \in DOMAIN data.result_events |-> data.result_events[k]]]

\* A __setstate__ that sets every runtime attribute as __init__ does.
SetStateAsInit(data) ==
    [data EXCEPT !.task_group = 0, !.executor = 0, !.futures = {},
                 !.results = <<>>, !.result_events = [k \in {} |-> FALSE]]

\* __setstate__: self.__dict__.update(data), then _task_group = None,
\* _executor = None, _futures = {}.
SetState(data) == [data EXCEPT !.task_group = 0, !.executor = 0, !.futures = {}]

\* pickle.loads(pickle.dumps(runner)): from this step on the runner of the
\* model is the copy. The copy has the attributes __setstate__ gave it; no
\* caller is in a start scope of it, no work was submitted to it and nobody
\* waits on it, and none of the original's resources belongs to it.
Deserialize ==
    /\ kind = "concurrent"
    /\ LET copy == SetState(Pickled(GetState(RunnerDict)))
       IN /\ started' = copy.started
          /\ task_group' = copy.task_group
          /\ executor' = copy.executor
          /\ result_events' = copy.result_events
          /\ results' = copy.results
          /\ futures' = copy.futures
    /\ deserialized' = TRUE
    /\ liveTG' = {}
    /\ livePool' = {}
    /\ tgFault' = {}
    /\ scope' = [s \in Scopes |-> Idle]
    /\ work' = [k \in Keys |-> NoWork]
    /\ cancelled' = {}
    /\ waiter' = NoWait
    /\ timeouts' = NoTimeouts
    /\ last' = Ret("deserialize", 0, "ok")
    /\ UNCHANGED <<auto, cli, visit, kind, dup, nextId, inSubmit, nextKey>>

\* A __getstate__ that works on self.__dict__ itself: data = self.__dict__.
DictAfterGetStateInPlace(d) == GetState(d)

\* self.__dict__ after __getstate__: data is a copy of it (a new dict with the
\* same values), and data.update(...) rebinds keys of the copy only.
DictAfterGetState(d) == d

\* pickle.dumps(runner) on the live runner, the callers going on with the
\* original: __getstate__ is called on it and the data is written out.
Serialize ==
    /\ kind = "concurrent"
    /\ LET self == DictAfterGetState(RunnerDict)
       IN /\ started' = self.started
          /\ task_group' = self.task_group
          /\ executor' = self.executor
          /\ result_events' = self.result_events
          /\ results' = self.results
          /\ futures' = self.futures
    /\ last' = Ret("getstate", 0, "ok")
    /\ UNCHANGED <<auto, cli, visit, kind, deserialized, dup, liveTG, livePool, tgFault, nextId, scope,
                   work, cancelled, inSubmit, nextKey, waiter, timeouts>>

\* ------------------------------------------------- SequentialTaskRunner
\* SequentialTaskRunner.submit(key, call) by the cooperative task c, up to a
\* suspension point inside `await call()`. There is no check of _started.
SeqSubmit(c, call) ==
    /\ kind = "sequential"
    /\ inSubmit[c] = 0
    /\ nextKey < MaxKeys
    /\ nextKey' = nextKey + 1
    /\ inSubmit' = [inSubmit EXCEPT ![c] = nextKey']
    /\ work' = [work EXCEPT ![nextKey'] = [path |-> "seq", owner |-> 0, by |-> c,
                                           st |-> "running", call |-> call,
                                           within |-> Inside]]
    /\ UNCHANGED <<auto, cli, visit, kind, deserialized, dup, started, task_group, executor, result_events, results, futures,
                   liveTG, livePool, tgFault, nextId, scope, cancelled, waiter,
                   timeouts>>
    /\ last' = NoRet

\* SequentialTaskRunner.submit from the end of `await call()` to its return.
SeqFinish(c, f) ==
    /\ kind = "sequential"
    /\ inSubmit[c] # 0
    /\ LET k == inSubmit[c]
       IN /\ work' = [work EXCEPT ![k].st = "done"]
          /\ IF RunCall(k, f) # "Fault"
             THEN /\ results' = DictPut(results, k, RunCall(k, f))
                  /\ last' = Ret("submit", k, "ok")
             ELSE /\ last' = Ret("submit", k, "Fault")
                  /\ UNCHANGED results
    /\ inSubmit' = [inSubmit EXCEPT ![c] = 0]
    /\ UNCHANGED <<auto, cli, visit, kind, deserialized, dup, started, task_group, executor, result_events, futures, liveTG,
                   livePool, tgFault, nextId, scope, cancelled, nextKey, waiter,
                   timeouts>>

\* SequentialTaskRunner.wait(key, timeout): return self._results[key]
SeqWait(k, tmo) ==
    /\ kind = "sequential"
    /\ last' = RetW("wait", k, tmo, IF k \in DictKeys(results)
                                    THEN DictVal(results, k) ELSE "KeyError")
    /\ UNCHANGED <<auto, cli, visit, timeouts, kind, deserialized, dup, started, task_group, executor, result_events, results, futures,
                   liveTG, livePool, tgFault, nextId, scope, work, cancelled, inSubmit,
                   nextKey, waiter>>

\* ------------------------------------------------------------ duplicate
AllTables == {"results", "result_events", "futures"}

\* copy.copy(self): a new object whose attributes are the original's, its
\* tables being the original's own dict objects.
DuplicateShallow(cls, d) ==
    [NewRunner(cls) EXCEPT !.started = d.started, !.task_group = d.task_group,
                           !.executor = d.executor, !.shared = AllTables]

\* duplicate(): return type(self)(), on a runner of class cls whose
\* attributes are d. The constructor takes nothing from the original.
DuplicateOf(cls, d) == NewRunner(cls)

\* The tables of the duplicate as the duplicate reads them: its own, or the
\* original's where the two runners hold the same object.
DupResults == IF "results" \in dup.shared THEN results ELSE dup.results

DupEvents ==
    DOMAIN (IF "result_events" \in dup.shared THEN result_events ELSE dup.result_events)

DupFutures == IF "futures" \in dup.shared THEN futures ELSE dup.futures

\* Keys submitted to the duplicate.
DupKeys == {k \in Keys : dup.sub[k] # "none"}

\* The call runner.duplicate(), made once, in any state of the runner.
Duplicate ==
    /\ ~dup.exists
    /\ dup' = [DuplicateOf(kind, RunnerDict) EXCEPT !.at = nextKey]
    /\ last' = Ret("duplicate", 0, "ok")
    /\ UNCHANGED <<auto, cli, visit, kind, deserialized, started, task_group, executor, result_events, results,
                   futures, liveTG, livePool, tgFault, nextId, scope, work, cancelled,
                   inSubmit, nextKey, waiter, timeouts>>

\* start_sync() on the duplicate, up to its yield: the check of _started, then
\* _start_sync (a thread pool for the concurrent runner) and _started = True.
DupStartSync ==
    /\ dup.exists
    /\ IF dup.started
       THEN /\ last' = Ret("dup.start_sync", 0, "AlreadyStarted")
            /\ UNCHANGED dup
       ELSE /\ dup' = [dup EXCEPT !.started = TRUE,
                                  !.executor = IF dup.kind = "concurrent" THEN 1 ELSE @]
            /\ last' = Ret("dup.start_sync", 0, "ok")
    /\ UNCHANGED <<auto, cli, visit, kind, deserialized, started, task_group, executor, result_events, results,
                   futures, liveTG, livePool, tgFault, nextId, scope, work, cancelled,
                   inSubmit, nextKey, waiter, timeouts>>

\* A write of table t of the duplicate lands in the original's table when the
\* two are the same object.
Lands(t) == t \in dup.shared

\* A submission to the duplicate with a key not used before. On a sequential
\* duplicate submit runs the call and stores its Outcome before it returns;
\* on a concurrent one submit_sync checks _started and _executor and puts the
\* Future in the handle table.
DupSubmit(k, c) ==
    /\ dup.exists
    /\ k = nextKey + 1
    /\ IF dup.kind = "sequential"
       THEN /\ results' = IF Lands("results") THEN DictPut(results, k, OutcomeOf(c)) ELSE results
            /\ dup' = [dup EXCEPT !.sub[k] = c,
                                  !.results = IF Lands("results") THEN @
                                              ELSE DictPut(@, k, OutcomeOf(c))]
            /\ nextKey' = k
            /\ last' = Ret("dup.submit", k, "ok")
            /\ UNCHANGED futures
       ELSE IF ~dup.started
       THEN /\ last' = Ret("dup.submit_sync", k, "NotStarted")
            /\ UNCHANGED <<dup, results, futures, nextKey>>
       ELSE IF dup.executor = 0
       THEN /\ last' = Ret("dup.submit_sync", k, "AfterSerialization")
            /\ UNCHANGED <<dup, results, futures, nextKey>>
       ELSE /\ futures' = IF Lands("futures") THEN futures \cup {k} ELSE futures
            /\ dup' = [dup EXCEPT !.sub[k] = c,
                                  !.futures = IF Lands("futures") THEN @ ELSE @ \cup {k}]
            /\ nextKey' = k
            /\ last' = Ret("dup.submit_sync", k, "ok")
            /\ UNCHANGED results
    /\ UNCHANGED <<auto, cli, visit, kind, deserialized, started, task_group, executor, result_events, liveTG,
                   livePool, tgFault, nextId, scope, work, cancelled, inSubmit, waiter,
                   timeouts>>

\* _run_and_store_result_sync in a worker thread of the concurrent duplicate:
\* self._results[key] = result.
DupStore(k) ==
    /\ dup.exists
    /\ dup.kind = "concurrent"
    /\ dup.sub[k] # "none"
    /\ k \notin DictKeys(DupResults)
    /\ results' = IF Lands("results") THEN DictPut(results, k, OutcomeOf(dup.sub[k]))
                  ELSE results
    /\ dup' = [dup EXCEPT !.results = IF Lands("results") THEN @
                                      ELSE DictPut(@, k, OutcomeOf(dup.sub[k]))]
    /\ last' = NoRet
    /\ UNCHANGED <<auto, cli, visit, kind, deserialized, started, task_group, executor, result_events, futures,
                   liveTG, livePool, tgFault, nextId, scope, work, cancelled, inSubmit,
                   nextKey, waiter, timeouts>>

\* SequentialTaskRunner.submit_sync(key, call): the class does not define it,
\* BaseTaskRunner.submit_sync runs: raise NotImplementedError().
SeqSubmitSync(k, c) ==
    /\ kind = "sequential"
    /\ k = nextKey + 1
    /\ last' = Ret("submit_sync", k, "NotImplementedError")
    /\ UNCHANGED <<auto, cli, visit, kind, deserialized, dup, started, task_group, executor, result_events,
                   results, futures, liveTG, livePool, tgFault, nextId, scope, work,
                   cancelled, inSubmit, nextKey, waiter, timeouts>>

\* SequentialTaskRunner.wait_sync(key, timeout): BaseTaskRunner.wait_sync
\* runs: raise NotImplementedError().
SeqWaitSync(k, tmo) ==
    /\ kind = "sequential"
    /\ last' = Ret("wait_sync", k, "NotImplementedError")
    /\ UNCHANGED <<auto, cli, visit, kind, deserialized, dup, started, task_group, executor, result_events,
                   results, futures, liveTG, livePool, tgFault, nextId, scope, work,
                   cancelled, inSubmit, nextKey, waiter, timeouts>>

\* ---------------------------------------------------------------- __eq__
\* Attribute names, in pieces: the first piece of a private name is "_".
SeqAttrs == {<<"logger">>, <<"_", "started">>, <<"_", "results">>}

ConcAttrs ==
    SeqAttrs \cup {<<"_", "task_group">>, <<"_", "result_events">>, <<"_", "keys">>,
                   <<"_", "executor">>, <<"_", "futures">>}

\* A public attribute set on a runner from outside, as an init option of a
\* subclass would be.
OptionAttr == <<"max_workers">>

\* get_logger(f"task_runner.{self.name}"): the logger of that name, one object
\* per name.
LoggerOf(cls) == <<"task_runner", cls>>

\* The __dict__ of a runner of class cls whose runtime attributes are r, with
\* the option attribute set if opt is not 0.
DictOf(cls, r, opt) ==
    [n \in (IF cls = "sequential" THEN SeqAttrs ELSE ConcAttrs)
             \cup (IF opt # 0 THEN {OptionAttr} ELSE {}) |->
        CASE n = <<"logger">> -> LoggerOf(cls)
          [] n = <<"_", "started">> -> r.started
          [] n = <<"_", "results">> -> r.results
          [] n = <<"_", "task_group">> -> r.task_group
          [] n = <<"_", "result_events">> -> r.result_events
          [] n = <<"_", "keys">> -> {}
          [] n = <<"_", "executor">> -> r.executor
          [] n = <<"_", "futures">> -> r.futures
          [] n = OptionAttr -> opt]

\* A comparison of the whole __dict__.
PublicAll(d) == d

\* {k: v for k, v in self.__dict__.items() if not k.startswith("_")}
Public(d) == [n \in {m \in DOMAIN d : m[1] # "_"} |-> d[n]]

\* BaseTaskRunner.__eq__(self, other), self of class cls with __dict__ d.
Eq(cls, d, otherCls, otherD) ==
    IF otherCls = cls /\ Public(d) = Public(otherD) THEN "True" ELSE "NotImplemented"

\* The runtime attributes of the duplicate, as DictOf takes them.
DupDict ==
    [started |-> dup.started, task_group |-> dup.task_group, executor |-> dup.executor,
     result_events |-> IF "result_events" \in dup.shared THEN result_events
                       ELSE dup.result_events,
     results |-> DupResults, futures |-> DupFutures]

\* The runners the runner is compared with: its duplicate, and a new runner of
\* either class, as constructed or with the option attribute set.
Comparands == {"eq duplicate", "eq sequential", "eq concurrent",
               "eq sequential with option", "eq concurrent with option"}

OtherCls(o) ==
    CASE o = "eq duplicate" -> dup.kind
      [] o \in {"eq sequential", "eq sequential with option"} -> "sequential"
      [] OTHER -> "concurrent"

OtherDict(o) ==
    CASE o = "eq duplicate" -> DictOf(dup.kind, DupDict, 0)
      [] o = "eq sequential" -> DictOf("sequential", NewRunner("sequential"), 0)
      [] o = "eq concurrent" -> DictOf("concurrent", NewRunner("concurrent"), 0)
      [] o = "eq sequential with option" -> DictOf("sequential", NewRunner("sequential"), 1)
      [] OTHER -> DictOf("concurrent", NewRunner("concurrent"), 1)

\* runner.__eq__(other)
Compare(o) ==
    /\ o = "eq duplicate" => dup.exists
    /\ last' = Ret(o, 0, Eq(kind, DictOf(kind, RunnerDict, 0), OtherCls(o), OtherDict(o)))
    /\ UNCHANGED <<auto, cli, visit, kind, deserialized, dup, started, task_group, executor, result_events,
                   results, futures, liveTG, livePool, tgFault, nextId, scope, work,
                   cancelled, inSubmit, nextKey, waiter, timeouts>>

\* ------------------------------------------------------- automations.py
\* Ids of automations (UUIDs the server gave out).
AutoIds == {"a1", "a2", "a3"}

\* HTTP statuses of a request that names no automation of the server: "not
\* found", or a rejection of the request.
ErrStatuses == {"404", "422"}

\* The server's automations: id -> enabled, for some of the ids.
AutoTables == UNION {[ids -> BOOLEAN] : ids \in SUBSET AutoIds}

\* The id Automation.enable passes: await client.resume_automation("asd")
EnableTarget(self) == "asd"

\* The id Automation.disable passes: await client.pause_automation(self.id)
DisableTarget(self) == self

\* client.resume_automation(id) / client.pause_automation(id) on the server:
\* the automation of that id gets enabled = to.
ServerSet(table, id, to) == [table EXCEPT ![id] = to]

\* try: await client.<call>(target); return True
\* except PrefectHTTPStatusError: 404 -> return False, else raise
\* The call on the automation object of id self, sent for id target, the
\* server answering `status` when it has no automation of that id.
AutoSet(op, self, target, to, status) ==
    IF target \in DOMAIN auto.table
    THEN auto' = [table |-> ServerSet(auto.table, target, to), op |-> op, id |-> self,
                  res |-> "True"]
    ELSE auto' = [auto EXCEPT !.op = op, !.id = self,
                              !.res = IF status = "404" THEN "False"
                                      ELSE "PrefectHTTPStatusError"]

\* automation.enable() on the Automation object whose id is self.
AutoEnable(self) ==
    /\ \E status \in ErrStatuses : AutoSet("enable", self, EnableTarget(self), TRUE, status)
    /\ UNCHANGED <<cli, visit, runnerVars>>

\* automation.disable() on the Automation object whose id is self.
AutoDisable(self) ==
    /\ \E status \in ErrStatuses : AutoSet("disable", self, DisableTarget(self), FALSE, status)
    /\ UNCHANGED <<cli, visit, runnerVars>>

\* Automation.read(id=id): the automation of that id, None if there is none.
AutoRead(id) ==
    /\ auto' = [auto EXCEPT !.op = "read", !.id = id,
                            !.res = IF id \notin DOMAIN auto.table THEN "None"
                                    ELSE IF auto.table[id] THEN "enabled" ELSE "disabled"]
    /\ UNCHANGED <<cli, visit, runnerVars>>

\* automation.delete() on the Automation object whose id is self.
AutoDelete(self) ==
    /\ IF self \in DOMAIN auto.table
       THEN auto' = [table |-> [i \in DOMAIN auto.table \ {self} |-> auto.table[i]],
                     op |-> "delete", id |-> self, res |-> "True"]
       ELSE auto' = [auto EXCEPT !.op = "delete", !.id = self, !.res = "False"]
    /\ UNCHANGED <<cli, visit, runnerVars>>

\* --------------------------------------------------------- cli/events.py
\* Events of the workspace.
Events == {"e1", "e2"}

\* The sequences over S of length up to n.
SeqsUpTo(S, n) == UNION {[1..m -> S] : m \in 0..n}

\* The --event-filter option: not given, a filter specification, text that is
\* not JSON, JSON that is no filter specification.
FilterArgs == {"absent", "filter", "not json", "not a filter"}

Formats == {"json", "text"}

\* `stream` is invoked with the options; the subscription, once open, will
\* deliver the events of `arriving`, `arrived` being those it has delivered.
CliReady(filter, format, arriving) ==
    [pc |-> "ready", filter |-> filter, format |-> format, arriving |-> arriving,
     arrived |-> <<>>, subscribed |-> FALSE, handled |-> <<>>, exit |-> "none"]

\* if event_filter: -- the branch that binds constructed_event_filter is run.
FilterGiven(filter) == filter # "absent"

\* The local variable constructed_event_filter is bound after the `if`.
FilterBound(filter) == FilterGiven(filter) /\ filter = "filter"

\* handle_error(exc): the message exit_with_error is called with.
HandleError(exc) ==
    CASE exc = "ConnectionClosedError" -> "Connection closed, retrying..."
      [] exc \in {"KeyboardInterrupt", "CancelledError"} -> "Exiting..."
      [] exc = "PermissionError" -> "Error writing to file"
      [] OTHER -> "An unexpected error occurred"

\* stream() up to `async with PrefectCloudEventSubscriber(...)`. A filter that
\* does not parse ends in exit_with_error, whose exit is an exception that the
\* outer `except Exception` hands to handle_error; the subscriber is built
\* from constructed_event_filter, and reading the name when it is not bound
\* raises UnboundLocalError, which handle_error gets as well.
StreamStart ==
    /\ cli.pc = "ready"
    /\ IF FilterGiven(cli.filter) /\ ~FilterBound(cli.filter)
       THEN cli' = [cli EXCEPT !.pc = "exited", !.exit = HandleError("Exit")]
       ELSE IF ~FilterBound(cli.filter)
       THEN cli' = [cli EXCEPT !.pc = "exited", !.exit = HandleError("UnboundLocalError")]
       ELSE cli' = [cli EXCEPT !.pc = "subscribed", !.subscribed = TRUE]
    /\ UNCHANGED <<auto, visit, runnerVars>>

\* async for event in subscriber: await handle_event(event, format, output_file)
StreamEvent ==
    /\ cli.pc = "subscribed"
    /\ cli.arriving # <<>>
    /\ cli' = [cli EXCEPT !.arriving = Tail(@),
                          !.arrived = Append(@, Head(cli.arriving)),
                          !.handled = Append(@, [event |-> Head(cli.arriving),
                                                 format |-> cli.format])]
    /\ UNCHANGED <<auto, visit, runnerVars>>

\* The subscription ends with an exception: the connection is closed, or the
\* command is interrupted.
StreamEnds(exc) ==
    /\ cli.pc = "subscribed"
    /\ cli' = [cli EXCEPT !.pc = "exited", !.exit = HandleError(exc)]
    /\ UNCHANGED <<auto, visit, runnerVars>>

\* ------------------------------------------------ utilities/collections.py
\* The objects that occur as elements of a collection, by identity (id(o)).
Objs == 1..MaxObjs

\* id() of the collection itself.
RootId == 0

\* visit_fn(o) for an element o: a new object, not one of Objs.
VisitFn(o) == o + MaxObjs

\* if id(expr) in _seen: return expr if return_data else None
Skip(o, seen) == o \in seen

\* items = [visit_nested(o) for o in expr], from the i-th element on: each
\* nested call returns the element itself when its id is in _seen, and
\* otherwise calls visit_fn and adds the id to _seen. acc holds _seen, the
\* arguments visit_fn was called with, and the items so far.
RECURSIVE VisitItems(_, _, _)
VisitItems(expr, i, acc) ==
    IF i > Len(expr) THEN acc
    ELSE LET o == expr[i]
         IN IF Skip(o, acc.seen)
            THEN VisitItems(expr, i + 1, [acc EXCEPT !.items = Append(@, o)])
            ELSE VisitItems(expr, i + 1,
                            [seen |-> acc.seen \cup {o},
                             calls |-> Append(acc.calls, o),
                             items |-> Append(acc.items, VisitFn(o))])

\* visit_collection(expr, visit_fn, return_data) for a list of elements that
\* are no collections: visit_fn is called on the list itself (and returns it),
\* then on the elements; with return_data the result is typ(items) if an item
\* is not the original element, and the list itself if none is.
VisitCollection(expr, return_data) ==
    LET acc == VisitItems(expr, 1, [seen |-> {RootId}, calls |-> <<>>, items |-> <<>>])
    IN [calls |-> acc.calls,
        result |-> IF ~return_data THEN "None"
                   ELSE IF \E i \in 1..Len(expr) : acc.items[i] # expr[i] THEN acc.items
                   ELSE expr]

VisitReady(expr, return_data) ==
    [pc |-> "ready", expr |-> expr, return_data |-> return_data]

\* The call visit_collection(expr, visit_fn, return_data=return_data).
Visit ==
    /\ visit.pc = "ready"
    /\ LET r == VisitCollection(visit.expr, visit.return_data)
       IN visit' = [pc |-> "done", expr |-> visit.expr, return_data |-> visit.return_data,
                    calls |-> r.calls, result |-> r.result]
    /\ UNCHANGED <<auto, cli, runnerVars>>

\* ------------------------------------------------------- specifications
Lifecycle ==
    \E s \in Scopes :
        \/ Start(s)
        \/ StartSyncCheck(s)
        \/ StartSyncEnter(s)
        \/ ExitBegin(s)
        \/ ExitPool(s)
        \/ ExitTG(s)

Next ==
    \/ Lifecycle
    \/ \E k \in Keys, c \in Calls : Submit(k, c) \/ SubmitSync(k, c)
    \/ \E k \in Keys : CoopBegin(k) \/ ThreadDone(k)
    \/ \E k \in Keys, f \in Faults : CoopFinish(k, f) \/ ThreadStore(k, f)
    \/ \E k \in Keys, tmo \in Timeouts : WaitCall(k, tmo) \/ WaitSyncCall(k, tmo)
    \/ WaitWake
    \/ WaitTimeout
    \/ WaitFutureReturn

\* A ConcurrentTaskRunner and its callers.
Spec == Init /\ [][Next]_vars

SeqLifecycle ==
    \E s \in Scopes : Start(s) \/ StartSyncCheck(s) \/ StartSyncEnter(s) \/ ExitBegin(s)

SeqNext ==
    \/ SeqLifecycle
    \/ \E c \in Callers, call \in Calls : SeqSubmit(c, call)
    \/ \E c \in Callers, f \in Faults : SeqFinish(c, f)
    \/ \E k \in Keys, tmo \in Timeouts : SeqWait(k, tmo)

\* A SequentialTaskRunner and its callers.
SeqSpec == SeqInit /\ [][SeqNext]_vars

\* The scheduling the runner relies on: the event loop runs every task that is
\* ready, the pool's threads run, a submitted call ends, and a waiter whose
\* Event is set or whose Future is done is resumed.
Fairness ==
    /\ \A k \in Keys :
          /\ WF_vars(CoopBegin(k))
          /\ WF_vars(\E f \in Faults : CoopFinish(k, f))
          /\ WF_vars(\E f \in Faults : ThreadStore(k, f))
          /\ WF_vars(ThreadDone(k))
    /\ \A s \in Scopes : WF_vars(ExitPool(s))
    /\ WF_vars(WaitWake)
    /\ WF_vars(WaitFutureReturn)

\* No caller of start is in a scope or entering one.
NoScope == \A s \in Scopes : scope[s].pc = "idle"

\* The callers of start take turns: one calls start or start_sync when no
\* other is in its scope, or when the runner is started (and the call fails).
TurnLifecycle ==
    \E s \in Scopes :
        \/ (NoScope \/ started) /\ Start(s)
        \/ (NoScope \/ started) /\ StartSyncCheck(s)
        \/ StartSyncEnter(s)
        \/ ExitBegin(s)
        \/ ExitPool(s)
        \/ ExitTG(s)

LiveNext ==
    \/ TurnLifecycle
    \/ \E k \in Keys, c \in Calls : Submit(k, c) \/ SubmitSync(k, c)
    \/ \E k \in Keys : CoopBegin(k) \/ ThreadDone(k)
    \/ \E k \in Keys, f \in Faults : CoopFinish(k, f) \/ ThreadStore(k, f)
    \/ \E k \in Keys, tmo \in Timeouts : WaitCall(k, tmo) \/ WaitSyncCall(k, tmo)
    \/ WaitWake
    \/ WaitTimeout
    \/ WaitFutureReturn

\* A ConcurrentTaskRunner whose start scopes follow one another, under that
\* scheduling.
LiveSpec == Init /\ [][LiveNext]_vars /\ Fairness

\* Both concrete runners, each with its callers.
AllSpec == (Init \/ SeqInit) /\ [][Next \/ SeqNext]_vars

\* The start scopes of a ConcurrentTaskRunner, _start failing or not, with the
\* work submitted in them.
ScopeNext ==
    \/ Lifecycle
    \/ \E s \in Scopes : StartFails(s) \/ StartSyncFails(s)
    \/ \E k \in Keys, c \in Calls : Submit(k, c) \/ SubmitSync(k, c)
    \/ \E k \in Keys : CoopBegin(k) \/ ThreadDone(k)
    \/ \E k \in Keys, f \in Faults : CoopFinish(k, f) \/ ThreadStore(k, f)

ScopeSpec == Init /\ [][ScopeNext]_vars

\* A ConcurrentTaskRunner whose start scopes follow one another and that is
\* pickled and unpickled at any point, the callers going on with the copy.
PickleNext == LiveNext \/ Deserialize

PickleSpec == Init /\ [][PickleNext]_vars

\* A ConcurrentTaskRunner that is pickled at any point while it is in use,
\* the callers going on with the original.
SerializeNext == LiveNext \/ Serialize

SerializeSpec == Init /\ [][SerializeNext]_vars

\* Either runner, its start scopes and the work submitted in them, and the
\* runner that duplicate() returns, with the work submitted to that one.
DupNext ==
    \/ ScopeNext
    \/ SeqNext
    \/ Duplicate
    \/ DupStartSync
    \/ \E k \in Keys, c \in Calls : DupSubmit(k, c)
    \/ \E k \in Keys : DupStore(k)

DupSpec == (Init \/ SeqInit) /\ [][DupNext]_vars

\* Either runner with work submitted on its blocking or inline path in start
\* scopes that follow one another, its duplicate, and the comparisons of the
\* runner with other runners.
EqNext ==
    \/ \E s \in Scopes : \/ (NoScope \/ started) /\ StartSyncCheck(s)
                         \/ StartSyncEnter(s)
                         \/ ExitBegin(s)
                         \/ ExitPool(s)
    \/ \E k \in Keys, c \in Calls : SubmitSync(k, c)
    \/ \E k \in Keys, f \in Faults : ThreadStore(k, f)
    \/ \E k \in Keys : ThreadDone(k)
    \/ \E c \in Callers, call \in Calls : SeqSubmit(c, call)
    \/ \E c \in Callers, f \in Faults : SeqFinish(c, f)
    \/ Duplicate
    \/ DupStartSync
    \/ \E k \in Keys, c \in Calls : DupSubmit(k, c)
    \/ \E k \in Keys : DupStore(k)
    \/ \E o \in Comparands : Compare(o)

EqSpec == (Init \/ SeqInit) /\ [][EqNext]_vars

\* A SequentialTaskRunner whose callers use the blocking calls too.
SeqSyncNext ==
    \/ SeqNext
    \/ \E k \in Keys, c \in Calls : SeqSubmitSync(k, c)
    \/ \E k \in Keys, tmo \in Timeouts : SeqWaitSync(k, tmo)

SeqSyncSpec == SeqInit /\ [][SeqSyncNext]_vars

\* A server with some automations, after which Automation objects are used.
AutoInit ==
    /\ kind = "concurrent" /\ InitFields
    /\ auto \in {[NoAuto EXCEPT !.table = t] : t \in AutoTables}
    /\ cli = NoCli /\ visit = NoVisit

AutoNext ==
    \E id \in AutoIds : AutoEnable(id) \/ AutoDisable(id) \/ AutoRead(id) \/ AutoDelete(id)

AutoSpec == AutoInit /\ [][AutoNext]_vars

\* An invocation of `prefect events stream`.
CliInit ==
    /\ kind = "concurrent" /\ InitFields
    /\ cli \in {CliReady(f, fmt, ev) : f \in FilterArgs, fmt \in Formats,
                                       ev \in SeqsUpTo(Events, MaxEvents)}
    /\ auto = NoAuto /\ visit = NoVisit

CliNext ==
    \/ StreamStart
    \/ StreamEvent
    \/ \E exc \in {"ConnectionClosedError", "CancelledError"} : StreamEnds(exc)

CliSpec == CliInit /\ [][CliNext]_vars

\* A call of visit_collection on a list in which objects may occur repeatedly.
VisitInit ==
    /\ kind = "concurrent" /\ InitFields
    /\ visit \in {VisitReady(e, rd) : e \in SeqsUpTo(Objs, MaxLen), rd \in BOOLEAN}
    /\ auto = NoAuto /\ cli = NoCli

VisitNext == Visit

VisitSpec == VisitInit /\ [][VisitNext]_vars

\* ------------------------------------------------------------ properties
WaitOps == {"wait", "wait_sync"}

\* The call of key k has ended.
Ended(k) == work[k].st \in {"stored", "done"}

\* C1. Fault containment, on every runner variant and path: a call that has
\* ended after raising has the crashed Outcome under its key in the Result
\* Table (and a call that has ended at all has an entry), and no fault has
\* reached the submitter (submit raising it), a waiter (wait raising it) or
\* the start scope (the task group holding a child's fault, the scope exit
\* raising it).
FaultContained ==
    /\ \A k \in Keys :
          Ended(k) => /\ k \in DictKeys(results)
                      /\ work[k].call = "Raises" => DictVal(results, k) = "Crashed"
    /\ last.res # "Fault"
    /\ tgFault = {}
    /\ cancelled = {}

\* On one started concurrent runner a call raised on the cooperative path and
\* a call raised on the blocking path, and both were stored as crashed.
FaultContainedWitness ==
    \E j, k \in Keys :
        /\ work[j].call = "Raises" /\ work[j].path = "coop" /\ work[j].st = "done"
        /\ work[k].call = "Raises" /\ work[k].path = "sync" /\ work[k].st = "done"
        /\ DictVal(results, j) = "Crashed"
        /\ DictVal(results, k) = "Crashed"
        /\ started

\* The entry of key k in table d, "absent" if it has none.
Entry(d, k) == IF k \in DictKeys(d) THEN DictVal(d, k) ELSE "absent"

\* The call of key k ends in this step, and it raised.
CrashStep(k) == ~Ended(k) /\ Ended(k)' /\ work[k].call = "Raises"

\* The step changes nothing of the runner but the state of key k.
OnlyKeyChanged(k) ==
    /\ UNCHANGED <<started, task_group, executor, liveTG, livePool, futures, cancelled>>
    /\ DOMAIN result_events' = DOMAIN result_events
    /\ \A j \in Keys \ {k} :
          /\ work'[j] = work[j]
          /\ Entry(results', j) = Entry(results, j)
          /\ j \in DOMAIN result_events => result_events'[j] = result_events[j]

\* Every call that ended has its own Outcome in the table, and every Outcome a
\* wait returns is the one of the call of the key waited for.
OwnOutcome ==
    /\ \A k \in Keys : Ended(k) => Entry(results, k) = OutcomeOf(work[k].call)
    /\ last.op \in WaitOps /\ last.res \in Outcomes
          => last.res = OutcomeOf(work[last.key].call)

\* C2. Fault isolation on the concurrent runner: the step in which a call
\* crashes leaves the runner started and with its resources, and leaves every
\* other key's work, table entry and signal as they were; the other keys end
\* with their own Outcome, and a key submitted after the crash is accepted and
\* wait returns its own Outcome.
FaultIsolation ==
    /\ [][\A k \in Keys : CrashStep(k) => OnlyKeyChanged(k)]_vars
    /\ []OwnOutcome
    /\ [](last.op \in {"submit", "submit_sync"} /\ started /\ task_group \in liveTG
             /\ executor \in livePool => last.res = "ok")

\* Key 1 crashed, key 2 was submitted after that and accepted, and a wait on
\* key 2 returned the Outcome of its own call while the runner was started.
FaultIsolationWitness ==
    /\ Entry(results, 1) = "Crashed"
    /\ work[2].call = "Returns"
    /\ last.op = "wait" /\ last.key = 2 /\ last.res = "Completed"
    /\ started

\* A wait with no timeout is blocked on key k, which was accepted by submit or
\* submit_sync.
WaitingFor(k) ==
    /\ waiter.pc = "blocked"
    /\ waiter.key = k
    /\ waiter.tmo = "None"
    /\ work[k].st # "none"

\* A wait on key k has just returned an Outcome.
GotOutcome(k) == last.op \in WaitOps /\ last.key = k /\ last.res \in Outcomes

WaitErrors == {"KeyError", "AfterSerialization"}

\* The step is the return of a wait on key k whose call has not stored its
\* Outcome yet: the wait timed out before the work completed.
TimedOutOn(k) ==
    /\ waiter.pc = "blocked"
    /\ waiter.key = k
    /\ waiter'.pc = "idle"
    /\ k \notin DictKeys(results)

\* C4. A timeout never cancels, on both paths of the concurrent runner: a wait
\* that times out before the work completed returns the absent value and
\* leaves the work, the key's signal and handle and the tables as they were;
\* and every wait with no timeout that returns a value returns the Outcome of
\* the key's own call, however many waits on the key timed out before.
TimeoutNeverCancels ==
    /\ [][\A k \in Keys :
            TimedOutOn(k) => /\ last'.res = "Absent"
                             /\ UNCHANGED <<work, cancelled, result_events, futures,
                                            results, started, task_group, executor>>]_vars
    /\ [](last.op \in WaitOps /\ last.tmo = "None" /\ last.res \notin WaitErrors
             => last.res = OutcomeOf(work[last.key].call))

\* A wait with no timeout returned the Outcome of a key submitted with submit
\* after two waits on that key in a row had timed out.
TimeoutNeverCancelsWitness ==
    /\ last.op = "wait"
    /\ last.tmo = "None"
    /\ last.res \in Outcomes
    /\ last.after >= 2
    /\ work[last.key].path = "coop"

\* C5. wait and wait_sync never raise for a submitted key: on a started
\* concurrent runner, a wait or wait_sync on a key accepted by submit or
\* submit_sync returns an Outcome or the absent value.
WaitNeverRaises ==
    last.op \in WaitOps /\ started /\ work[last.key].st # "none"
        => last.res \in Outcomes \cup {"Absent"}

\* C8. On a concurrent runner that is not started, submit and submit_sync
\* raise the 'must be started' error and accept nothing: the key gets no
\* work, no signal and no handle.
SubmitNeedsStart ==
    last.op \in {"submit", "submit_sync"} /\ kind = "concurrent" /\ ~started
        => /\ last.res = "NotStarted"
           /\ work[last.key].st = "none"
           /\ last.key \notin DOMAIN result_events
           /\ last.key \notin futures

\* start, submit, stop, submit: the second submit failed on the stopped runner.
SubmitNeedsStartWitness ==
    /\ last.op = "submit" /\ last.res = "NotStarted" /\ last.key = 2
    /\ work[1].path = "coop" /\ work[1].st = "done"
    /\ NoScope
    /\ task_group # 0

\* C10. Double start: start or start_sync called while _started is set raises
\* 'already started' and changes nothing of the runner: the flag, the task
\* group, the pool, the tables and the running scope are as before.
DoubleStartFails ==
    [][\A s \in Scopes :
          started /\ (Start(s) \/ StartSyncCheck(s))
              => /\ last'.res = "AlreadyStarted"
                 /\ UNCHANGED <<started, task_group, executor, liveTG, livePool, nextId,
                                result_events, results, futures, scope, work>>]_vars

\* start_sync failed on a runner started with start that has work in flight.
DoubleStartFailsWitness ==
    /\ last.op = "start_sync" /\ last.res = "AlreadyStarted"
    /\ started
    /\ \E s \in Scopes : scope[s].pc = "inside" /\ scope[s].mode = "async"
    /\ \E k \in Keys : work[k].st = "suspended"

\* ------------------------------------------- properties, sequential runner
\* C6. Sequential runner: when submit returns, the Result Table holds for the
\* key the Outcome of its call (the crashed one if the call raised), and a
\* wait on the key afterwards returns that Outcome, never the absent value or
\* an error, whatever the timeout.
SubmitThenWait ==
    /\ last.op = "submit" =>
          /\ last.res = "ok"
          /\ Entry(results, last.key) = OutcomeOf(work[last.key].call)
    /\ last.op = "wait" /\ work[last.key].st = "done" =>
          last.res = OutcomeOf(work[last.key].call)

\* A wait with a timeout returned the crashed Outcome of key 1 while the table
\* held the Outcome of key 2 too.
SubmitThenWaitWitness ==
    /\ last.op = "wait" /\ last.tmo = "Finite" /\ last.key = 1
    /\ last.res = "Crashed"
    /\ Entry(results, 2) = "Completed"

Running == {k \in Keys : work[k].path = "seq" /\ work[k].st = "running"}

\* C7. Sequential runner ordering: at most one submitted call is executing at
\* any time, and the Result Table lists the keys in submission order.
NoOverlapInOrder ==
    /\ Cardinality(Running) <= 1
    /\ \A i, j \in 1..Len(results) : i < j => results[i].key < results[j].key

\* C7, amended. The calls one cooperative task submits never overlap and are
\* recorded in the order that task submitted them: when it submits a key,
\* every key it submitted before has ended and has its entry.
PerCallerOrder ==
    \A j, k \in Keys :
        j < k /\ work[j].path = "seq" /\ work[k].path = "seq" /\ work[j].by = work[k].by
            => /\ work[j].st = "done"
               /\ j \in DictKeys(results)
               /\ k \in DictKeys(results) => DictGet(results, j) < DictGet(results, k)

\* One cooperative task submitted two calls and both are in the table.
PerCallerOrderWitness ==
    /\ work[1].by = "c1" /\ work[2].by = "c1"
    /\ DictKeys(results) = {1, 2}

\* C9. Sequential runner: a submit on a runner that is not started raises a
\* usage error, executes nothing and writes nothing.
SeqSubmitNeedsStart ==
    [][\A c \in Callers, call \in Calls :
          ~started /\ SeqSubmit(c, call)
              => /\ last'.res = "NotStarted"
                 /\ UNCHANGED <<work, results>>]_vars

\* ------------------------------------------------ properties, the scopes
\* The resource sets of the scopes that have not ended.
Open == {scope[s].id : s \in {t \in Scopes : scope[t].pc # "idle"}}

\* C11. Scoped release on the concurrent runner: every live thread pool and
\* task group belongs to a start / start_sync scope that has not ended yet,
\* whether the scopes ended by leaving the body (normally or with a fault) or
\* by a failure of _start; and when no scope is left the runner is not
\* started, a submit raises 'must be started' and a start or start_sync
\* passes the check of _started.
ScopedRelease ==
    /\ [](liveTG \cup livePool \subseteq Open)
    /\ [](NoScope => ~started)
    /\ [](NoScope /\ last.op \in {"submit", "submit_sync"} => last.res = "NotStarted")
    /\ [][\A s \in Scopes :
            /\ NoScope /\ Start(s) => last'.res = "ok" /\ started'
            /\ NoScope /\ StartSyncCheck(s) => scope'[s].pc = "entering"]_vars

\* A scope in which work ran has ended, and after it a start failed in _start:
\* the runner is bound to the task group of the failed start, nothing is live
\* and the runner is not started.
ScopedReleaseWitness ==
    /\ last.op = "start" /\ last.res = "Fault"
    /\ NoScope
    /\ task_group = 2
    /\ task_group \notin liveTG
    /\ \E k \in Keys : work[k].st = "done"

\* C12. Lifecycle invariant of the concurrent runner: whenever the runner is
\* not started, the thread pool and the task group it holds are not live, the
\* teardown of a scope and the state after stop included.
NotStartedHoldsNothing ==
    ~started => executor \notin livePool /\ task_group \notin liveTG

\* --------------------------------------------- properties, serialization
\* C13. Serialization round trip: the copy that deserialization yields has
\* the Result Table the original had when it was serialized, entry for entry
\* and in the same order, has no task group and no thread pool, and has an
\* empty handle table, whatever state the original was in.
RoundTripState ==
    [][last'.op = "deserialize"
          => /\ results' = results
             /\ task_group' = 0
             /\ executor' = 0
             /\ futures' = {}]_vars

\* A runner was serialized inside its start scope with one call ended and its
\* Outcome stored, and a second one accepted by submit_sync and not stored:
\* the copy has the one entry, no resources and no handle.
RoundTripStateWitness ==
    /\ last.op = "deserialize"
    /\ started
    /\ nextKey = 2
    /\ DictKeys(results) = {1}
    /\ DOMAIN result_events = {1}
    /\ futures = {} /\ task_group = 0 /\ executor = 0

\* The runner is a deserialized copy on which no start has created resources.
NotRestarted == deserialized /\ task_group = 0 /\ executor = 0

UsageErrors == {"NotStarted", "AfterSerialization"}

\* C14. A deserialized runner rejects work: on a deserialized copy that has
\* not been restarted, every submit, submit_sync, wait and wait_sync raises a
\* usage error ('must be started' or 'after serialization'), whether the
\* original was started or not when serialized; none of them is accepted
\* (no work, no blocked waiter) and none changes the Result Table.
DeserializedRejects ==
    /\ [](NotRestarted /\ last.op \in {"submit", "submit_sync"} \cup WaitOps
             => last.res \in UsageErrors)
    /\ [](NotRestarted => waiter.pc = "idle" /\ \A k \in Keys : work[k].st = "none")
    /\ [][NotRestarted /\ last'.op \in {"submit", "submit_sync"} \cup WaitOps
             => results' = results]_vars

\* On a copy of a runner serialized while started, a wait on a key whose
\* Outcome is in the copy's Result Table and whose signal is set raised the
\* 'after serialization' error.
DeserializedRejectsWitness ==
    /\ NotRestarted
    /\ started
    /\ last.op = "wait" /\ last.res = "AfterSerialization"
    /\ last.key \in DictKeys(results)
    /\ last.key \in DOMAIN result_events /\ result_events[last.key]

\* C15. A deserialized runner can be restarted: on a deserialized copy that
\* has not been restarted, whether the original was started or not when
\* serialized, a call of start succeeds and leaves the copy started with a
\* live task group and a live thread pool, so that submit is accepted again.
RestartAfterDeserialize ==
    [][\A s \in Scopes :
          NotRestarted /\ NoScope /\ Start(s)
              => /\ last'.res = "ok"
                 /\ started'
                 /\ task_group' \in liveTG'
                 /\ executor' \in livePool']_vars

\* C16. Distinct usage errors: submit, submit_sync, wait and wait_sync raise
\* the 'cannot be used after serialization' error only on a runner that is a
\* deserialized copy, never on a runner that was never serialized.
SerializationErrorOnlyAfterPickle ==
    last.res = "AfterSerialization" => deserialized

\* ---------------------------------------------- properties, path selection
\* Keys accepted by submit or submit_sync.
Accepted == {k \in Keys : work[k].st # "none"}

\* The runner accepted a key on the cooperative path and one on the blocking path.
BothPaths ==
    /\ \E k \in Accepted : work[k].path = "coop"
    /\ \E k \in Accepted : work[k].path = "sync"

\* C17. Path selection on a concurrent runner that accepted keys from submit
\* and from submit_sync: an accepted key is in exactly one of the handle table
\* and the Completion Signal Table (the handle table iff it came from
\* submit_sync); wait(key) blocks on the handle exactly when the key is in the
\* handle table and on the signal otherwise; and it returns the absent value
\* or the Outcome of the key's own call.
PathSelection ==
    /\ \A k \in Accepted :
          /\ (k \in futures) # (k \in DOMAIN result_events)
          /\ (k \in futures) <=> (work[k].path = "sync")
    /\ waiter.pc = "blocked" /\ waiter.op = "wait"
          => ((waiter.via = "future") <=> (waiter.key \in futures))
    /\ BothPaths /\ last.op = "wait" /\ last.key \in Accepted
          => /\ last.res \in Outcomes \cup {"Absent"}
             /\ last.res \in Outcomes => last.res = OutcomeOf(work[last.key].call)

\* The runner accepted key 1 from submit and key 2 from submit_sync, both
\* ended, the one completed and the other crashed, and wait on the key of the
\* handle table returned that key's Outcome.
PathSelectionWitness ==
    /\ work[1].path = "coop" /\ work[2].path = "sync"
    /\ work[1].call # work[2].call
    /\ Ended(1) /\ Ended(2)
    /\ last.op = "wait" /\ last.key = 2 /\ last.key \in futures
    /\ last.res = OutcomeOf(work[2].call)

\* Key k was never passed to a submit that registered it: the keys are used
\* in order, so it is one beyond the last key used.
NeverSubmitted(k) == k > nextKey

\* C18. Unknown key, on the sequential and the concurrent runner and for
\* every timeout: wait or wait_sync called with a key that was never
\* submitted raises an error at once; it does not block, and returns neither
\* the absent value nor an Outcome.
UnknownKeyFails ==
    /\ last.op \in WaitOps /\ NeverSubmitted(last.key) => last.res \in WaitErrors
    /\ waiter.pc = "blocked" => ~NeverSubmitted(waiter.key)

\* On a started concurrent runner whose Result Table holds the Outcome of
\* key 1, a wait on key 2, never submitted, raised the key error.
UnknownKeyFailsWitness ==
    /\ kind = "concurrent"
    /\ started /\ task_group \in liveTG
    /\ Entry(results, 1) \in Outcomes
    /\ NeverSubmitted(2)
    /\ last.op = "wait" /\ last.key = 2 /\ last.res = "KeyError"

\* ------------------------------------------------ properties, Result Table
\* The step is the end of the call of key k, in the task or thread running it.
EndsIn(k) == ~Ended(k) /\ Ended(k)'

\* C19. The Result Table is append-only on both runners, over start / stop
\* cycles and with a fresh key per submission: a step leaves the table as it
\* is or appends one entry, for a key that had none, in the step in which the
\* task or thread that ran the key's call ends it, with that call's Outcome;
\* no entry is ever overwritten, moved or removed.
AppendOnly ==
    [][\/ results' = results
       \/ \E k \in Keys \ DictKeys(results) :
             /\ results' = Append(results, [key |-> k, val |-> OutcomeOf(work[k].call)])
             /\ EndsIn(k)]_vars

\* The table holds an entry written in a first start scope and, behind it, one
\* written in a second start scope, and no scope is open.
AppendOnlyWitness ==
    /\ Len(results) = 2
    /\ results[1].key = 1 /\ results[2].key = 2
    /\ work[1].owner = 1 /\ work[2].owner = 2
    /\ NoScope

\* --------------------------------------------------- properties, duplicate
\* C20. duplicate, on a sequential or concurrent runner in any state: the
\* call leaves the original as it is and returns a runner of the same class
\* that is not started, has no task group and no executor, and whose Result,
\* Completion Signal and handle tables are empty; and from then on no key
\* submitted to the original is in a table of the duplicate and no key
\* submitted to the duplicate is in a table of the original.
DuplicateIsFresh ==
    /\ [][~dup.exists /\ dup'.exists
             => /\ dup'.kind = kind
                /\ ~dup'.started /\ dup'.task_group = 0 /\ dup'.executor = 0
                /\ DupResults' = <<>> /\ DupEvents' = {} /\ DupFutures' = {}
                /\ UNCHANGED <<kind, started, task_group, executor, result_events, results,
                               futures, liveTG, livePool, scope, work>>]_vars
    /\ [](dup.exists
             => /\ DictKeys(DupResults) \cup DupEvents \cup DupFutures \subseteq DupKeys
                /\ (DictKeys(results) \cup DOMAIN result_events \cup futures) \cap DupKeys = {})

\* A started concurrent runner that held the Outcome of key 1 was duplicated;
\* the duplicate was started and given key 2, whose Outcome is in the
\* duplicate's Result Table only, the original's holding that of key 1 only.
DuplicateIsFreshWitness ==
    /\ dup.exists /\ dup.kind = "concurrent"
    /\ dup.at = 1
    /\ started
    /\ DictKeys(results) = {1}
    /\ DictKeys(DupResults) = {2}
    /\ DupFutures = {2}

\* ---------------------------------------------------- properties, __eq__
\* C21. Equality: __eq__ returns True exactly when the other runner is of the
\* same class and has the same public attributes (here: no option attribute
\* set), and NotImplemented otherwise, never False; the private attributes
\* (started flag, tables, resources) of either runner play no part, so a
\* runner equals its duplicate whatever work either was given.
EqualityByPublicConfig ==
    [][\A o \in Comparands :
          Compare(o) =>
              /\ last'.res \in {"True", "NotImplemented"}
              /\ last'.res = "True" <=>
                    (OtherCls(o) = kind /\ OptionAttr \notin DOMAIN OtherDict(o))]_vars

\* A concurrent runner that is stopped and holds the Outcome of key 1 compared
\* equal to its duplicate, which is started and holds the Outcome of key 2.
EqualityByPublicConfigWitness ==
    /\ last.op = "eq duplicate" /\ last.res = "True"
    /\ kind = "concurrent"
    /\ ~started /\ dup.started
    /\ DictKeys(results) = {1}
    /\ DictKeys(DupResults) = {2}

\* C22. The blocking half of the contract on the sequential runner: on a
\* started runner submit_sync accepts the call, and wait_sync on a key whose
\* call has ended returns its Outcome.
SeqBlockingHalf ==
    /\ kind = "sequential" /\ started /\ last.op = "submit_sync" => last.res = "ok"
    /\ kind = "sequential" /\ last.op = "wait_sync" /\ last.key \in DictKeys(results)
          => last.res = DictVal(results, last.key)

\* ------------------------------------------------ properties, automations
\* C23. Automation.enable: when enable() has returned on an automation that
\* exists on the server, the automation of that id is enabled, so a read of
\* it yields enabled = True, whether it was disabled before or not.
EnableEnables ==
    auto.op = "enable" /\ auto.id \in DOMAIN auto.table => auto.table[auto.id]

\* ------------------------------------------------- properties, cli events
\* C24. `stream` invoked without --event-filter opens the subscription before
\* it can end: it does not exit with an error without having subscribed, and
\* the events it has handled are the first events that arrived, in order.
StreamWithoutFilter ==
    cli.pc # "none" /\ cli.filter = "absent"
        => /\ cli.pc = "exited" => cli.subscribed
           /\ Len(cli.handled) = Len(cli.arrived)
           /\ \A i \in 1..Len(cli.handled) : cli.handled[i].event = cli.arrived[i]

\* -------------------------------------------- properties, visit_collection
\* C25. visit_collection visits every element: visit_fn has been called once
\* for each element occurrence of the collection, in order, also for an
\* object that occurs more than once; and with return_data=True the result
\* has, at each position, visit_fn's result for the element there.
VisitsEveryOccurrence ==
    visit.pc = "done"
        => /\ visit.calls = visit.expr
           /\ visit.return_data
                 => visit.result = [i \in 1..Len(visit.expr) |-> VisitFn(visit.expr[i])]

\* ------------------------------------- properties, ordering of completion
\* The Completion Signal of key k is set.
Signalled(k) == k \in DOMAIN result_events /\ result_events[k]

\* C26. Completion Signal ordering on the cooperative path: in every state a
\* key's Completion Signal is set only if the key's Outcome is in the Result
\* Table and the key's call is no longer running; the signal becomes set only
\* in the step in which the task that ran the key's call ends, and once set it
\* stays set (it is set exactly once).
SignalAfterOutcome ==
    /\ [](\A k \in Keys : Signalled(k)
              => /\ k \in DictKeys(results)
                 /\ work[k].path = "coop" /\ work[k].st = "done")
    /\ [][\A k \in Keys :
              /\ Signalled(k) => Signalled(k)'
              /\ ~Signalled(k) /\ Signalled(k)'
                    => /\ work[k].path = "coop"
                       /\ work[k].st = "suspended" /\ work'[k].st = "done"
                       /\ \A j \in Keys \ {k} : work'[j] = work[j]]_vars

\* One key's signal is set with its Outcome stored while the call of another
\* key, submitted on the same path, is still running with its signal unset.
SignalAfterOutcomeWitness ==
    \E k, j \in Keys :
        /\ Signalled(k) /\ k \in DictKeys(results)
        /\ j \in DOMAIN result_events /\ ~result_events[j]
        /\ work[j].path = "coop" /\ work[j].st = "suspended"

\* The in-flight handle of key k, submitted with submit_sync, is done.
HandleDone(k) == work[k].path = "sync" /\ work[k].st = "done"

\* C27. Blocking-path ordering: in every state, if the handle of a key
\* submitted with submit_sync is done, the key's Outcome is in the Result
\* Table; so a wait or wait_sync that has returned on a key whose handle is
\* done has not returned the absent value, whether the call returned or raised.
HandleDoneHasOutcome ==
    /\ \A k \in Keys : HandleDone(k) => k \in DictKeys(results)
    /\ last.op \in WaitOps /\ HandleDone(last.key) => last.res # "Absent"

\* wait_sync with a timeout has returned the crashed Outcome of a call that
\* raised, its handle being done.
HandleDoneHasOutcomeWitness ==
    /\ last.op = "wait_sync" /\ last.tmo = "Finite"
    /\ HandleDone(last.key)
    /\ work[last.key].call = "Raises"
    /\ last.res = "Crashed"

\* C28. Absent means no result yet, on both Concurrent paths: a wait or
\* wait_sync that has returned the absent value returned it in a state where
\* the Result Table has no entry for the key; in particular, when the work
\* completes while the waiter's timeout is expiring, the waiter returns the
\* Outcome and not the absent value.
AbsentMeansNoResult ==
    last.op \in WaitOps /\ last.res = "Absent" => last.key \notin DictKeys(results)

\* C29. Concurrent submit is bookkeeping only: a step that is a call of submit
\* or submit_sync leaves the Result Table, the start state and resources of
\* the runner, and every other key's signal, handle and work as they were;
\* when the call is accepted, the only change is the new key's unset entry in
\* the Completion Signal Table (submit) or its entry in the handle table
\* (submit_sync), and the submitted call has not ended when submit returns.
SubmitIsBookkeeping ==
    [][/\ last'.op \in {"submit", "submit_sync"}
          => /\ results' = results
             /\ <<started, task_group, executor, liveTG, livePool, tgFault, cancelled>>'
                    = <<started, task_group, executor, liveTG, livePool, tgFault, cancelled>>
             /\ \A j \in Keys \ {last'.key} :
                    /\ work'[j] = work[j]
                    /\ (j \in futures') = (j \in futures)
                    /\ (j \in DOMAIN result_events') = (j \in DOMAIN result_events)
                    /\ j \in DOMAIN result_events => result_events'[j] = result_events[j]
       /\ last'.op = "submit" /\ last'.res = "ok"
          => /\ futures' = futures
             /\ last'.key \notin DOMAIN result_events
             /\ DOMAIN result_events' = DOMAIN result_events \cup {last'.key}
             /\ ~result_events'[last'.key]
             /\ work'[last'.key].st = "scheduled"
       /\ last'.op = "submit_sync" /\ last'.res = "ok"
          => /\ result_events' = result_events
             /\ last'.key \notin futures
             /\ futures' = futures \cup {last'.key}
             /\ work'[last'.key].st = "running"]_vars

\* submit_sync has just accepted a key while an earlier key, submitted with
\* submit, has its Outcome stored and its signal set.
SubmitIsBookkeepingWitness ==
    /\ last.op = "submit_sync" /\ last.res = "ok"
    /\ last.key \in futures
    /\ \E j \in Keys \ {last.key} : Signalled(j) /\ j \in DictKeys(results)

\* Two calls submitted on path p are in progress at the same time: two tasks
\* of the task group suspended inside their calls, or two calls running in
\* worker threads.
Overlap(p) ==
    \E j, k \in Keys :
        /\ j # k
        /\ work[j].path = p /\ work[k].path = p
        /\ work[j].st = (IF p = "coop" THEN "suspended" ELSE "running")
        /\ work[k].st = work[j].st

\* A key submitted later on path p has its Result Table entry before a key
\* submitted earlier on that path.
LaterFirst(p) ==
    \E i, j \in 1..Len(results) :
        /\ i < j /\ results[i].key > results[j].key
        /\ work[results[i].key].path = p /\ work[results[j].key].path = p

\* C30. Overlap and unconstrained order on the Concurrent runner: calls
\* submitted on one path may be in progress together and may get their Result
\* Table entries in another order than they were submitted in; where a later
\* key was stored before an earlier one, the table still holds under each key
\* the Outcome of that key's call, and a wait that returned an Outcome
\* returned the one of the key it was asked for.
UnconstrainedOrder ==
    \A p \in {"coop", "sync"} :
        LaterFirst(p)
            => /\ \A k \in DictKeys(results) : DictVal(results, k) = OutcomeOf(work[k].call)
               /\ last.op \in WaitOps /\ last.res \in Outcomes
                     => last.res = OutcomeOf(work[last.key].call)

\* Cooperative path: of two calls with different Outcomes the later one was
\* stored first, and wait on the earlier key has returned that key's Outcome.
UnconstrainedOrderWitness ==
    /\ LaterFirst("coop")
    /\ work[1].call # work[2].call
    /\ last.op = "wait" /\ last.key = 1
    /\ last.res = OutcomeOf(work[1].call)

\* The same on the blocking path, with wait_sync.
UnconstrainedOrderSync ==
    /\ LaterFirst("sync")
    /\ work[1].call # work[2].call
    /\ last.op = "wait_sync" /\ last.key = 1
    /\ last.res = OutcomeOf(work[1].call)

\* ------------------------------------------- properties, scopes and stop
\* The start scopes that are active: entered and not yet fully exited.
ActiveScopes == {s \in Scopes : scope[s].pc \in {"inside", "exit_pool", "exit_tg"}}

\* C31. At most one active start scope: for every interleaving of two callers
\* of start / start_sync on one runner, at most one of them is inside its
\* start scope at any time, and the task group and the thread pool of the
\* runner are the ones created by the scope that is active (inside or being
\* torn down): they are never replaced while that scope is active.
OneActiveScope ==
    /\ Cardinality({s \in Scopes : scope[s].pc = "inside"}) <= 1
    /\ \A s \in ActiveScopes :
           /\ executor = scope[s].id
           /\ scope[s].mode = "async" => task_group = scope[s].id

\* C32. Stop drains the work: in the step in which a start scope of a
\* Concurrent runner finishes exiting without raising, every key that was
\* accepted by submit or submit_sync while a caller was inside that scope has
\* an entry in the Result Table; no accepted key is left without an Outcome
\* after the scope has ended.
StopDrains ==
    [][\A s \in Scopes :
           /\ scope[s].pc \in {"exit_pool", "exit_tg"}
           /\ scope'[s].pc = "idle"
           /\ last'.res # "Fault"
           => \A k \in Keys : scope[s].id \in work[k].within => k \in DictKeys(results')]_vars

\* The call of key k has completed in a start scope that has exited since: its
\* Outcome is stored and the task group or thread pool it ran in is closed.
CompletedEarlier(k) ==
    /\ k \in DictKeys(results)
    /\ work[k].path = "coop" => work[k].st = "done" /\ work[k].owner \notin liveTG
    /\ work[k].path = "sync" => work[k].st = "done" /\ work[k].owner \notin livePool
    /\ work[k].path \in {"coop", "sync"}

\* C33. Results outlive the scope: entering and leaving a start scope of a
\* Concurrent runner leave the Result Table as it is, and a wait or wait_sync
\* that returns on a key completed in a scope that has exited, the runner
\* stopped or started again, returns that key's Outcome (wait_sync being
\* asked for a key of submit_sync, the only keys it serves).
ResultsOutliveScope ==
    /\ [][scope' # scope => results' = results]_vars
    /\ [](/\ last.op \in WaitOps
          /\ CompletedEarlier(last.key)
          /\ last.op = "wait_sync" => work[last.key].path = "sync"
          => last.res = OutcomeOf(work[last.key].call))

\* ---------------------------------------- properties, waiting and failing
\* C34. Cooperative wait does not stall the scheduler: while a cooperative
\* caller is blocked in the async wait(key, timeout), every other cooperative
\* task submitted to the runner can take its next step (start its call, or
\* finish it and store the Outcome), whichever of submit and submit_sync the
\* awaited key was submitted by.
WaitDoesNotStall ==
    waiter.pc = "blocked" /\ waiter.op = "wait"
        => \A k \in Keys \ {waiter.key} :
               /\ work[k].path = "coop" /\ work[k].st = "scheduled" => ENABLED CoopBegin(k)
               /\ work[k].path = "coop" /\ work[k].st = "suspended"
                     => ENABLED (\E f \in Faults : CoopFinish(k, f))

\* C35. Failed submit changes nothing: a step in which submit or submit_sync
\* on a Concurrent runner fails (not started, after serialization, or the
\* task group / thread pool bound to the runner no longer accepting work)
\* leaves the Completion Signal Table, the handle table and the Result Table
\* unchanged, so that every key registered in a table has work that will
\* complete it.
FailedSubmitChangesNothing ==
    [][last'.op \in {"submit", "submit_sync"} /\ last'.res # "ok"
          => /\ result_events' = result_events
             /\ futures' = futures
             /\ results' = results]_vars

\* -------------------------------------------- properties, serialization
\* C36. Serializing is read-only for the live runner: the step that takes the
\* serialized state of a Concurrent runner leaves its task group, thread
\* pool, handle table, Completion Signal Table, Result Table and started flag
\* unchanged, with its work and its waiter; so a started runner that has just
\* been serialized still has the task group and thread pool of its scope and
\* the handles of the keys in flight.
SerializeIsReadOnly ==
    /\ [][last'.op = "getstate"
             => /\ RunnerDict' = RunnerDict
                /\ <<work, waiter, liveTG, livePool, scope>>' = <<work, waiter, liveTG, livePool, scope>>]_vars
    /\ [](last.op = "getstate" /\ started
             => /\ executor # 0 /\ executor \in livePool
                /\ \A k \in Keys : work[k].path = "sync" => k \in futures)

\* A started runner has just been serialized with a call of each path in
\* flight, one suspended in the task group and one running in the pool.
SerializeIsReadOnlyWitness ==
    /\ last.op = "getstate" /\ started
    /\ task_group \in liveTG /\ executor \in livePool
    /\ \E j, k \in Keys :
           /\ work[j].path = "coop" /\ work[j].st = "suspended" /\ j \in DOMAIN result_events
           /\ work[k].path = "sync" /\ work[k].st = "running" /\ k \in futures

====
